---- MODULE Spec2Model ----
(***************************************************************************)
(* tsddns: resolve the nameserver references of a config (svc:, device:,   *)
(* literal) against the Tailscale API and submit the split-DNS table,      *)
(* once or on a ticker (src/main.go).                                      *)
(*                                                                         *)
(* Go strings whose contents the code inspects (references, device names   *)
(* and hostnames) are sequences of one-character strings, so HasPrefix and *)
(* TrimPrefix are computed.  Opaque strings (domains, addresses, keys) are *)
(* TLA+ strings.                                                           *)
(***************************************************************************)
EXTENDS Integers, Sequences, FiniteSets, TLC

VARIABLES
    pc,            \* position of main: loadConfig, createClient, main, list,
                   \* range, ref, set, ret, wait, exit
    flags,         \* the parsed command line (main.go:27-35)
    cfg,           \* main's cfg
    client,        \* main's client: [nil, c]
    mainErr,       \* what main's log.Fatalf reported: [stage, cause]
    exitCode,      \* process exit status once pc = "exit"
    tickPending,   \* ticker.C (a channel of capacity 1) holds a tick
    tickDropped,   \* history: the timer fired on a full ticker.C since the
                   \* last receive, and that tick was dropped
    answers,       \* the answer of the services endpoint per name, where a
                   \* run fixes it (SpecOrder); the empty function otherwise
    passCfg,       \* resolveSplitDNS: the cfg argument of the running pass
    needsDevices,  \* resolveSplitDNS: needsDevices
    devices,       \* resolveSplitDNS: devices
    todo,          \* resolveSplitDNS: domains the outer range has not reached
    cur,           \* resolveSplitDNS: domain of the outer range, "" if none
    idx,           \* resolveSplitDNS: position of the inner range in cfg[cur]
    resolved,      \* resolveSplitDNS: resolved
    splitDNS,      \* resolveSplitDNS: splitDNS
    ret,           \* what resolveSplitDNS returned: [done, nil, err]
    err,           \* what updateDNS returned ("" is nil)
    submitted,     \* the table handed to SetSplitDNS in this cycle
    trace,         \* history: the events of the running cycle, in order
    loaded,        \* history: the config loadConfig returned
    nLoad,         \* history: calls of loadConfig
    nCreate,       \* history: calls of createClient
    nCycles,       \* history: calls of updateDNS (saturates at MaxCycles)
    lastFailed     \* history: the cycle before the running one returned an error

vars == <<pc, flags, cfg, client, mainErr, exitCode, tickPending, tickDropped,
          answers, passCfg,
          needsDevices, devices, todo, cur, idx, resolved, splitDNS, ret, err,
          submitted, trace, loaded, nLoad, nCreate, nCycles, lastFailed>>

passVars == <<passCfg, needsDevices, devices, todo, cur, idx, resolved,
              splitDNS, ret, err, submitted, trace>>

mainVars == <<flags, cfg, client, mainErr, exitCode, loaded, nLoad, nCreate,
              answers>>

-----------------------------------------------------------------------------
(* Bounds *)

MaxRefs == 2        \* references in a config, over all its domains
MaxDevices == 2     \* devices in a list handed to getDeviceIP (SpecDeviceIP)
MaxCycles == 2      \* the cycle counters saturate here

Min(a, b) == IF a < b THEN a ELSE b

-----------------------------------------------------------------------------
(* Strings *)

HasPrefix(s, prefix) ==
    /\ Len(s) >= Len(prefix)
    /\ SubSeq(s, 1, Len(prefix)) = prefix

TrimPrefix(s, prefix) ==
    IF HasPrefix(s, prefix) THEN SubSeq(s, Len(prefix) + 1, Len(s)) ELSE s

svcPrefix == <<"s", "v", "c", ":">>
devicePrefix == <<"d", "e", "v", "i", "c", "e", ":">>

-----------------------------------------------------------------------------
(* Data *)

StatusOK == 200

\* Config: domain -> ordered references
Lit1 == <<"1">>
SvcA == svcPrefix \o <<"a">>
SvcB == svcPrefix \o <<"b">>
DevH == devicePrefix \o <<"h">>
Refs == {Lit1, SvcA, SvcB, DevH}
Domains == {"d1", "d2"}

RefLists == UNION {[1..n -> Refs] : n \in 0..MaxRefs}

RECURSIVE SumLen(_, _)
SumLen(c, S) ==
    IF S = {} THEN 0
    ELSE LET d == CHOOSE x \in S : TRUE
         IN Len(c[d]) + SumLen(c, S \ {d})

TotalRefs(c) == SumLen(c, DOMAIN c)

Configs ==
    UNION {{c \in [D -> RefLists] : TotalRefs(c) <= MaxRefs} : D \in SUBSET Domains}

EmptyTable == [d \in {} |-> <<>>]

\* Devices: the fields of tailscale.Device the program reads
Device(name, hostname, addresses) ==
    [Name |-> name, Hostname |-> hostname, Addresses |-> addresses]

hostH == <<"h">>
hostHX == <<"h", ".", "x">>
devByHostname == Device(<<>>, hostH, <<"100.64.0.1", "fd7a::1">>)
devByName == Device(hostH, <<"o">>, <<"100.64.0.2">>)
devByPrefix == Device(hostHX, <<"o">>, <<"100.64.0.3">>)
devNearMiss == Device(<<"h", "x">>, <<"o">>, <<"100.64.0.4">>)
devNoAddrs == Device(<<>>, hostH, <<>>)

DeviceSet == {devByHostname, devByName, devByPrefix, devNearMiss, devNoAddrs}

\* what Devices().List returns in a pass of the main specification
DeviceLists ==
    { <<>>,
      <<devNearMiss, devNoAddrs>>,
      <<devByPrefix, devByHostname>> }

\* every device list of at most MaxDevices devices
AllDeviceLists == UNION {[1..n -> DeviceSet] : n \in 0..MaxDevices}

\* the answer of the services endpoint to one GET
Response(doErr, status, bodyOK, addrs) ==
    [doErr |-> doErr, status |-> status, bodyOK |-> bodyOK, addrs |-> addrs]

NoResponse == Response(TRUE, 0, FALSE, <<>>)

Responses ==
    { NoResponse,
      Response(FALSE, 404, FALSE, <<>>),
      Response(FALSE, StatusOK, FALSE, <<>>),
      Response(FALSE, StatusOK, TRUE, <<>>),
      Response(FALSE, StatusOK, TRUE, <<"100.64.0.1", "fd7a::1">>),
      Response(FALSE, StatusOK, TRUE, <<"100.64.0.9">>) }

-----------------------------------------------------------------------------
(* createClient *)

NoHTTP == [set |-> FALSE, ClientID |-> "", ClientSecret |-> "", TokenURL |-> <<>>]

NilClient == [Tailnet |-> "", BaseURL |-> "", APIKey |-> "", HTTP |-> NoHTTP]

\* url.Parse: "://invalid-url" has no scheme before its first colon
urlParse(rawURL) ==
    [url |-> rawURL, err |-> IF rawURL = "://invalid-url" THEN "missing protocol scheme" ELSE ""]

\* createClient with the API key tried before the OAuth credentials
createClientKeyFirst(tailnet, apiKey, clientID, clientSecret, baseURL) ==
    LET parsed == urlParse(baseURL)
        c == [Tailnet |-> tailnet, BaseURL |-> parsed.url, APIKey |-> "", HTTP |-> NoHTTP]
    IN  IF parsed.err # ""
        THEN [nil |-> TRUE, c |-> NilClient, err |-> "invalid base URL"]
        ELSE IF apiKey # ""
        THEN [nil |-> FALSE, c |-> [c EXCEPT !.APIKey = apiKey], err |-> ""]
        ELSE IF clientID # "" /\ clientSecret # ""
        THEN [nil |-> FALSE,
              c |-> [c EXCEPT !.HTTP = [set |-> TRUE, ClientID |-> clientID,
                                        ClientSecret |-> clientSecret,
                                        TokenURL |-> <<baseURL, "/api/v2/oauth/token">>]],
              err |-> ""]
        ELSE [nil |-> TRUE, c |-> NilClient, err |-> "need either api key or oauth creds"]

createClient(tailnet, apiKey, clientID, clientSecret, baseURL) ==
    LET parsed == urlParse(baseURL)
        c == [Tailnet |-> tailnet, BaseURL |-> parsed.url, APIKey |-> "", HTTP |-> NoHTTP]
    IN  IF parsed.err # ""
        THEN [nil |-> TRUE, c |-> NilClient, err |-> "invalid base URL"]
        ELSE IF clientID # "" /\ clientSecret # ""
        THEN [nil |-> FALSE,
              c |-> [c EXCEPT !.HTTP = [set |-> TRUE, ClientID |-> clientID,
                                        ClientSecret |-> clientSecret,
                                        TokenURL |-> <<baseURL, "/api/v2/oauth/token">>]],
              err |-> ""]
        ELSE IF apiKey # ""
        THEN [nil |-> FALSE, c |-> [c EXCEPT !.APIKey = apiKey], err |-> ""]
        ELSE [nil |-> TRUE, c |-> NilClient, err |-> "need either api key or oauth creds"]

-----------------------------------------------------------------------------
(* getServiceIP, getDeviceIP *)

\* whether getServiceIP reaches httpClient.Do
sendsRequest(c) == c.APIKey # "" \/ c.HTTP.set

\* getServiceIP taking the last address of the service
getServiceIPLast(c, serviceName, resp) ==
    IF ~sendsRequest(c) THEN [ip |-> "", err |-> "no auth configured"]
    ELSE IF resp.doErr THEN [ip |-> "", err |-> "transport"]
    ELSE IF resp.status # StatusOK THEN [ip |-> "", err |-> "API returned status"]
    ELSE IF ~resp.bodyOK THEN [ip |-> "", err |-> "decode"]
    ELSE IF Len(resp.addrs) = 0 THEN [ip |-> "", err |-> "service has no addresses"]
    ELSE [ip |-> resp.addrs[Len(resp.addrs)], err |-> ""]

\* getServiceIP without the check for an empty address list
getServiceIPNoAddrCheck(c, serviceName, resp) ==
    IF ~sendsRequest(c) THEN [ip |-> "", err |-> "no auth configured"]
    ELSE IF resp.doErr THEN [ip |-> "", err |-> "transport"]
    ELSE IF resp.status # StatusOK THEN [ip |-> "", err |-> "API returned status"]
    ELSE IF ~resp.bodyOK THEN [ip |-> "", err |-> "decode"]
    ELSE IF Len(resp.addrs) = 0 THEN [ip |-> "", err |-> ""]
    ELSE [ip |-> resp.addrs[1], err |-> ""]

\* resp is the answer to the request, read only when one was sent
getServiceIP(c, serviceName, resp) ==
    IF ~sendsRequest(c) THEN [ip |-> "", err |-> "no auth configured"]
    ELSE IF resp.doErr THEN [ip |-> "", err |-> "transport"]
    ELSE IF resp.status # StatusOK THEN [ip |-> "", err |-> "API returned status"]
    ELSE IF ~resp.bodyOK THEN [ip |-> "", err |-> "decode"]
    ELSE IF Len(resp.addrs) = 0 THEN [ip |-> "", err |-> "service has no addresses"]
    ELSE [ip |-> resp.addrs[1], err |-> ""]

deviceMatches(device, hostname) ==
    \/ device.Hostname = hostname
    \/ device.Name = hostname
    \/ HasPrefix(device.Name, hostname \o <<".">>)

RECURSIVE getDeviceIPFrom(_, _, _)
getDeviceIPFrom(hostname, devs, k) ==
    IF k > Len(devs) THEN [ip |-> "", err |-> "device not found"]
    ELSE IF deviceMatches(devs[k], hostname)
    THEN IF Len(devs[k].Addresses) = 0
         THEN [ip |-> "", err |-> "device has no addresses"]
         ELSE [ip |-> devs[k].Addresses[1], err |-> ""]
    ELSE getDeviceIPFrom(hostname, devs, k + 1)

getDeviceIP(hostname, devs) == getDeviceIPFrom(hostname, devs, 1)

\* the scan looking only at the first reference of each domain
NeedsDevicesFirstRef(c) ==
    \E d \in DOMAIN c : Len(c[d]) >= 1 /\ HasPrefix(c[d][1], devicePrefix)

\* the scan of resolveSplitDNS for a device: reference
NeedsDevices(c) ==
    \E d \in DOMAIN c : \E i \in 1..Len(c[d]) : HasPrefix(c[d][i], devicePrefix)


-----------------------------------------------------------------------------
(* State after flag.Parse *)

Flags(tailnet, apiKey, clientID, clientSecret, baseURL, interval) ==
    [tailnet |-> tailnet, apiKey |-> apiKey, clientID |-> clientID,
     clientSecret |-> clientSecret, baseURL |-> baseURL, interval |-> interval]

GoodURL == "https://api.tailscale.com"
BadURL == "://invalid-url"

\* the pass treats a client of either kind alike (sendsRequest), so the OAuth
\* credentials are run one-shot only
MainFlags ==
    { Flags("-", cr[1], cr[2], cr[3], u, iv) :
        cr \in {<<"k", "", "">>, <<"", "", "">>},
        u \in {GoodURL, BadURL},
        iv \in {-1, 0, 1} }
    \cup { Flags("-", "", "i", "s", u, 0) : u \in {GoodURL, BadURL} }

NoAnswers == [n \in {} |-> NoResponse]
NoErr == [stage |-> "", cause |-> ""]
NoRet == [done |-> FALSE, nil |-> TRUE, err |-> ""]
NoSubmit == [set |-> FALSE, table |-> EmptyTable]

Event(op, dom, i, ns, ok, resp, ip) ==
    [op |-> op, dom |-> dom, i |-> i, ns |-> ns, ok |-> ok, resp |-> resp, ip |-> ip]

Daemon == flags.interval > 0

InitPass ==
    /\ passCfg = EmptyTable
    /\ needsDevices = FALSE
    /\ devices = <<>>
    /\ todo = {}
    /\ cur = ""
    /\ idx = 0
    /\ resolved = <<>>
    /\ splitDNS = EmptyTable
    /\ ret = NoRet
    /\ err = ""
    /\ submitted = NoSubmit
    /\ trace = <<>>

Init ==
    /\ pc = "loadConfig"
    /\ flags \in MainFlags
    /\ cfg = EmptyTable
    /\ client = [nil |-> TRUE, c |-> NilClient]
    /\ mainErr = NoErr
    /\ exitCode = 0
    /\ tickPending = FALSE
    /\ tickDropped = FALSE
    /\ answers = NoAnswers
    /\ InitPass
    /\ loaded = EmptyTable
    /\ nLoad = 0
    /\ nCreate = 0
    /\ nCycles = 0
    /\ lastFailed = FALSE

-----------------------------------------------------------------------------
(* main *)

\* log.Fatalf
Fatal(stage, cause) ==
    /\ mainErr' = [stage |-> stage, cause |-> cause]
    /\ exitCode' = 1
    /\ pc' = "exit"

\* main.go:37-40 with loadConfig: the file is unreadable, or not JSON of the
\* expected shape, or holds a config
LoadConfig ==
    /\ pc = "loadConfig"
    /\ nLoad' = nLoad + 1
    /\ \/ /\ \E c \in Configs : cfg' = c /\ loaded' = c
          /\ pc' = "createClient"
          /\ UNCHANGED <<mainErr, exitCode>>
       \/ /\ \E cause \in {"reading config file", "parsing config JSON"} :
                Fatal("load", cause)
          /\ UNCHANGED <<cfg, loaded>>
    /\ UNCHANGED <<answers, flags, client, tickPending, tickDropped, nCreate, nCycles, lastFailed>>
    /\ UNCHANGED passVars

\* main.go:42-45
CreateClient ==
    /\ pc = "createClient"
    /\ nCreate' = nCreate + 1
    /\ LET r == createClient(flags.tailnet, flags.apiKey, flags.clientID,
                             flags.clientSecret, flags.baseURL)
       IN  /\ client' = [nil |-> r.nil, c |-> r.c]
           /\ IF r.err # ""
              THEN Fatal("client", r.err)
              ELSE pc' = "main" /\ UNCHANGED <<mainErr, exitCode>>
    /\ UNCHANGED <<answers, flags, cfg, loaded, tickPending, tickDropped, nLoad, nCycles, lastFailed>>
    /\ UNCHANGED passVars

\* updateDNS(ctx, client, cfg) up to the first remote call of resolveSplitDNS
\* (main.go:72, 134-151)
BeginCycle(c) ==
    /\ passCfg' = c
    /\ needsDevices' = NeedsDevices(c)
    /\ devices' = <<>>
    /\ todo' = DOMAIN c
    /\ cur' = ""
    /\ idx' = 0
    /\ resolved' = <<>>
    /\ splitDNS' = EmptyTable
    /\ ret' = NoRet
    /\ err' = ""
    /\ submitted' = NoSubmit
    /\ trace' = <<>>
    /\ nCycles' = Min(nCycles + 1, MaxCycles)
    /\ pc' = IF NeedsDevices(c) THEN "list" ELSE "range"

\* the loop without the call of runUpdate before it: the first cycle waits
\* for the first tick
StartDaemonWaitsFirst ==
    /\ pc = "main"
    /\ Daemon
    /\ tickPending' = FALSE
    /\ tickDropped' = FALSE
    /\ pc' = "wait"
    /\ UNCHANGED mainVars
    /\ UNCHANGED passVars
    /\ UNCHANGED <<nCycles, lastFailed>>

\* main.go:49-60: the ticker is created and runUpdate is called at once
StartDaemon ==
    /\ pc = "main"
    /\ Daemon
    /\ tickPending' = FALSE
    /\ tickDropped' = FALSE
    /\ BeginCycle(cfg)
    /\ UNCHANGED mainVars
    /\ UNCHANGED lastFailed

\* main.go:64-65
StartOneShot ==
    /\ pc = "main"
    /\ ~Daemon
    /\ BeginCycle(cfg)
    /\ UNCHANGED mainVars
    /\ UNCHANGED <<tickPending, tickDropped, lastFailed>>

\* the runtime's timer fires: a tick is put in ticker.C, or dropped when
\* one is there (the send does not block)
Tick ==
    /\ Daemon
    /\ pc \in {"list", "range", "ref", "set", "ret", "wait"}
    /\ IF tickPending
       THEN tickDropped' = TRUE /\ UNCHANGED tickPending
       ELSE tickPending' = TRUE /\ UNCHANGED tickDropped
    /\ UNCHANGED <<pc, nCycles, lastFailed>>
    /\ UNCHANGED mainVars
    /\ UNCHANGED passVars

\* the loop loading the config again on every tick
ReceiveTickReloads ==
    /\ pc = "wait"
    /\ tickPending
    /\ tickPending' = FALSE
    /\ tickDropped' = FALSE
    /\ \E c \in Configs : cfg' = c /\ BeginCycle(c)
    /\ nLoad' = Min(nLoad + 1, MaxCycles)
    /\ UNCHANGED <<answers, flags, client, mainErr, exitCode, loaded, nCreate>>
    /\ UNCHANGED lastFailed

\* main.go:61-62: the range over ticker.C receives the tick
ReceiveTick ==
    /\ pc = "wait"
    /\ tickPending
    /\ tickPending' = FALSE
    /\ tickDropped' = FALSE
    /\ BeginCycle(cfg)
    /\ UNCHANGED mainVars
    /\ UNCHANGED lastFailed

\* runUpdate ending the process when the cycle failed
DaemonReturnFatal ==
    /\ pc = "ret"
    /\ Daemon
    /\ IF err # ""
       THEN Fatal("update", err) /\ UNCHANGED lastFailed
       ELSE pc' = "wait" /\ lastFailed' = FALSE /\ UNCHANGED <<mainErr, exitCode>>
    /\ UNCHANGED <<answers, flags, cfg, client, loaded, nLoad, nCreate>>
    /\ UNCHANGED <<tickPending, tickDropped, nCycles>>
    /\ UNCHANGED passVars

\* main.go:55-57: runUpdate logs the error and returns to the loop
DaemonReturn ==
    /\ pc = "ret"
    /\ Daemon
    /\ pc' = "wait"
    /\ lastFailed' = (err # "")
    /\ UNCHANGED <<tickPending, tickDropped, nCycles>>
    /\ UNCHANGED mainVars
    /\ UNCHANGED passVars

\* the one-shot branch logging the error without log.Fatalf
OneShotReturnLogsOnly ==
    /\ pc = "ret"
    /\ ~Daemon
    /\ pc' = "exit"
    /\ exitCode' = 0
    /\ UNCHANGED mainErr
    /\ UNCHANGED <<answers, flags, cfg, client, loaded, nLoad, nCreate>>
    /\ UNCHANGED <<tickPending, tickDropped, nCycles, lastFailed>>
    /\ UNCHANGED passVars

\* main.go:65-68
OneShotReturn ==
    /\ pc = "ret"
    /\ ~Daemon
    /\ IF err # ""
       THEN Fatal("update", err)
       ELSE pc' = "exit" /\ exitCode' = 0 /\ UNCHANGED mainErr
    /\ UNCHANGED <<answers, flags, cfg, client, loaded, nLoad, nCreate>>
    /\ UNCHANGED <<tickPending, tickDropped, nCycles, lastFailed>>
    /\ UNCHANGED passVars

-----------------------------------------------------------------------------
(* resolveSplitDNS and updateDNS *)

restVars == <<tickPending, tickDropped, nCycles, lastFailed>>

\* return nil, err from resolveSplitDNS; updateDNS wraps and returns it
ResolveFails(e) ==
    /\ ret' = [done |-> TRUE, nil |-> TRUE, err |-> e]
    /\ err' = "resolving services"
    /\ pc' = "ret"

\* ListDevices going on with no devices when the fetch fails
ListDevicesIgnoresError ==
    /\ pc = "list"
    /\ \/ \E devs \in DeviceLists :
            /\ devices' = devs
            /\ trace' = Append(trace, Event("List", "", 0, <<>>, TRUE, NoResponse, ""))
       \/ /\ trace' = Append(trace, Event("List", "", 0, <<>>, FALSE, NoResponse, ""))
          /\ UNCHANGED devices
    /\ pc' = "range"
    /\ UNCHANGED <<ret, err>>
    /\ UNCHANGED <<passCfg, needsDevices, todo, cur, idx, resolved, splitDNS, submitted>>
    /\ UNCHANGED mainVars
    /\ UNCHANGED restVars

\* main.go:151-157
ListDevices ==
    /\ pc = "list"
    /\ \/ \E devs \in DeviceLists :
            /\ devices' = devs
            /\ trace' = Append(trace, Event("List", "", 0, <<>>, TRUE, NoResponse, ""))
            /\ pc' = "range"
            /\ UNCHANGED <<ret, err>>
       \/ /\ trace' = Append(trace, Event("List", "", 0, <<>>, FALSE, NoResponse, ""))
          /\ ResolveFails("listing devices")
          /\ UNCHANGED devices
    /\ UNCHANGED <<passCfg, needsDevices, todo, cur, idx, resolved, splitDNS, submitted>>
    /\ UNCHANGED mainVars
    /\ UNCHANGED restVars

\* RangeDomain with resolved declared outside the loop: it is not reset for
\* the next domain
RangeDomainKeepsResolved ==
    /\ pc = "range"
    /\ \E d \in todo :
         /\ cur' = d
         /\ todo' = todo \ {d}
    /\ idx' = 1
    /\ pc' = "ref"
    /\ UNCHANGED <<passCfg, needsDevices, devices, resolved, splitDNS, ret, err, submitted, trace>>
    /\ UNCHANGED mainVars
    /\ UNCHANGED restVars

\* main.go:159-160: the range over the map takes the next domain, in any order
RangeDomain ==
    /\ pc = "range"
    /\ \E d \in todo :
         /\ cur' = d
         /\ todo' = todo \ {d}
    /\ idx' = 1
    /\ resolved' = <<>>
    /\ pc' = "ref"
    /\ UNCHANGED <<passCfg, needsDevices, devices, splitDNS, ret, err, submitted, trace>>
    /\ UNCHANGED mainVars
    /\ UNCHANGED restVars

InRef == pc = "ref" /\ idx <= Len(passCfg[cur])

\* ResolveService answering a name already looked up in the pass from that
\* lookup
ResolveServiceCached ==
    /\ InRef
    /\ LET ns == passCfg[cur][idx]
           seen == {k \in 1..Len(trace) : trace[k].op = "Service" /\ trace[k].ns = ns}
       IN
       /\ HasPrefix(ns, svcPrefix)
       /\ IF seen # {}
          THEN /\ resolved' = Append(resolved, trace[CHOOSE k \in seen : TRUE].ip)
               /\ idx' = idx + 1
               /\ UNCHANGED <<pc, ret, err, trace>>
          ELSE \E resp \in IF sendsRequest(client.c) THEN Responses ELSE {NoResponse} :
                 LET r == getServiceIP(client.c, ns, resp) IN
                 /\ trace' = Append(trace, Event("Service", cur, idx, ns,
                                                 sendsRequest(client.c), resp, r.ip))
                 /\ IF r.err # ""
                    THEN ResolveFails("resolving service") /\ UNCHANGED <<idx, resolved>>
                    ELSE /\ resolved' = Append(resolved, r.ip)
                         /\ idx' = idx + 1
                         /\ UNCHANGED <<pc, ret, err>>
    /\ UNCHANGED <<passCfg, needsDevices, devices, todo, cur, splitDNS, submitted>>
    /\ UNCHANGED mainVars
    /\ UNCHANGED restVars

\* main.go:162-169
ResolveService ==
    /\ InRef
    /\ LET ns == passCfg[cur][idx] IN
       /\ HasPrefix(ns, svcPrefix)
       /\ \E resp \in IF sendsRequest(client.c) THEN Responses ELSE {NoResponse} :
            LET r == getServiceIP(client.c, ns, resp) IN
            /\ trace' = Append(trace, Event("Service", cur, idx, ns,
                                            sendsRequest(client.c), resp, r.ip))
            /\ IF r.err # ""
               THEN ResolveFails("resolving service") /\ UNCHANGED <<idx, resolved>>
               ELSE /\ resolved' = Append(resolved, r.ip)
                    /\ idx' = idx + 1
                    /\ UNCHANGED <<pc, ret, err>>
    /\ UNCHANGED <<passCfg, needsDevices, devices, todo, cur, splitDNS, submitted>>
    /\ UNCHANGED mainVars
    /\ UNCHANGED restVars

\* main.go:170-178
ResolveDevice ==
    /\ InRef
    /\ LET ns == passCfg[cur][idx] IN
       /\ ~HasPrefix(ns, svcPrefix)
       /\ HasPrefix(ns, devicePrefix)
       /\ LET r == getDeviceIP(TrimPrefix(ns, devicePrefix), devices) IN
          /\ trace' = Append(trace, Event("Device", cur, idx, ns, r.err = "", NoResponse, r.ip))
          /\ IF r.err # ""
             THEN ResolveFails("resolving device") /\ UNCHANGED <<idx, resolved>>
             ELSE /\ resolved' = Append(resolved, r.ip)
                  /\ idx' = idx + 1
                  /\ UNCHANGED <<pc, ret, err>>
    /\ UNCHANGED <<passCfg, needsDevices, devices, todo, cur, splitDNS, submitted>>
    /\ UNCHANGED mainVars
    /\ UNCHANGED restVars

\* main.go:179-181
CopyLiteral ==
    /\ InRef
    /\ LET ns == passCfg[cur][idx] IN
       /\ ~HasPrefix(ns, svcPrefix)
       /\ ~HasPrefix(ns, devicePrefix)
       /\ trace' = Append(trace, Event("Literal", cur, idx, ns, TRUE, NoResponse, ""))
       /\ resolved' = Append(resolved, ns)
    /\ idx' = idx + 1
    /\ UNCHANGED <<passCfg, needsDevices, devices, todo, cur, splitDNS, ret, err, submitted, pc>>
    /\ UNCHANGED mainVars
    /\ UNCHANGED restVars

\* main.go:183
StoreDomain ==
    /\ pc = "ref"
    /\ idx > Len(passCfg[cur])
    /\ splitDNS' = (cur :> resolved) @@ splitDNS
    /\ cur' = ""
    /\ pc' = "range"
    /\ UNCHANGED <<passCfg, needsDevices, devices, todo, idx, resolved, ret, err, submitted, trace>>
    /\ UNCHANGED mainVars
    /\ UNCHANGED restVars

\* main.go:186 and 72-80: the range is over, resolveSplitDNS returns the table
RangeDone ==
    /\ pc = "range"
    /\ todo = {}
    /\ ret' = [done |-> TRUE, nil |-> FALSE, err |-> ""]
    /\ pc' = "set"
    /\ UNCHANGED <<passCfg, needsDevices, devices, todo, cur, idx, resolved, splitDNS, err, submitted, trace>>
    /\ UNCHANGED mainVars
    /\ UNCHANGED restVars

\* main.go:82-87
SetSplitDNS ==
    /\ pc = "set"
    /\ submitted' = [set |-> TRUE, table |-> splitDNS]
    /\ \E ok \in BOOLEAN :
         /\ trace' = Append(trace, Event("SetSplitDNS", "", 0, <<>>, ok, NoResponse, ""))
         /\ err' = IF ok THEN "" ELSE "updating split DNS"
    /\ pc' = "ret"
    /\ UNCHANGED <<passCfg, needsDevices, devices, todo, cur, idx, resolved, splitDNS, ret>>
    /\ UNCHANGED mainVars
    /\ UNCHANGED restVars

Next ==
    \/ LoadConfig
    \/ CreateClient
    \/ StartDaemon
    \/ StartOneShot
    \/ Tick
    \/ ReceiveTick
    \/ DaemonReturn
    \/ OneShotReturn
    \/ ListDevices
    \/ RangeDomain
    \/ ResolveService
    \/ ResolveDevice
    \/ CopyLiteral
    \/ StoreDomain
    \/ RangeDone
    \/ SetSplitDNS

Spec == Init /\ [][Next]_vars


-----------------------------------------------------------------------------
(* getDeviceIP on every device list of at most MaxDevices devices: a pass   *)
(* that stands at a device: reference after Devices().List returned devs   *)

DevHX == devicePrefix \o hostHX

ApiKeyFlags == Flags("-", "k", "", "", GoodURL, 0)

InitDeviceIP ==
    /\ pc = "ref"
    /\ flags = ApiKeyFlags
    /\ \E ref \in {DevH, DevHX} : cfg = ("d1" :> <<ref>>)
    /\ client = [nil |-> FALSE, c |-> createClient("-", "k", "", "", GoodURL).c]
    /\ mainErr = NoErr
    /\ exitCode = 0
    /\ tickPending = FALSE
    /\ tickDropped = FALSE
    /\ answers = NoAnswers
    /\ passCfg = cfg
    /\ needsDevices = TRUE
    /\ devices \in AllDeviceLists
    /\ todo = {}
    /\ cur = "d1"
    /\ idx = 1
    /\ resolved = <<>>
    /\ splitDNS = EmptyTable
    /\ ret = NoRet
    /\ err = ""
    /\ submitted = NoSubmit
    /\ trace = <<Event("List", "", 0, <<>>, TRUE, NoResponse, "")>>
    /\ loaded = cfg
    /\ nLoad = 1
    /\ nCreate = 1
    /\ nCycles = 1
    /\ lastFailed = FALSE

SpecDeviceIP == InitDeviceIP /\ [][ResolveDevice]_vars

-----------------------------------------------------------------------------
(* createClient on every combination of credentials *)

ClientFlags ==
    { Flags(t, k, i, s, u, 0) :
        t \in {"-", "example.com"},
        k \in {"", "k1", "k2"},
        i \in {"", "i1", "i2"},
        s \in {"", "s1", "s2"},
        u \in {GoodURL, BadURL} }

InitClient ==
    /\ pc = "createClient"
    /\ flags \in ClientFlags
    /\ cfg = ("d1" :> <<Lit1>>)
    /\ client = [nil |-> TRUE, c |-> NilClient]
    /\ mainErr = NoErr
    /\ exitCode = 0
    /\ tickPending = FALSE
    /\ tickDropped = FALSE
    /\ answers = NoAnswers
    /\ InitPass
    /\ loaded = cfg
    /\ nLoad = 1
    /\ nCreate = 0
    /\ nCycles = 0
    /\ lastFailed = FALSE

SpecClient == InitClient /\ [][CreateClient]_vars

-----------------------------------------------------------------------------
(* Claims *)

Last(s) == s[Len(s)]

MinOf(S) == CHOOSE k \in S : \A j \in S : k <= j

\* positions of devs matching hostname by each kind
ByHostname(hostname, devs) == {k \in 1..Len(devs) : devs[k].Hostname = hostname}
ByName(hostname, devs) == {k \in 1..Len(devs) : devs[k].Name = hostname}
ByPrefix(hostname, devs) ==
    {k \in 1..Len(devs) :
        /\ Len(devs[k].Name) > Len(hostname)
        /\ SubSeq(devs[k].Name, 1, Len(hostname) + 1) = hostname \o <<".">>}

\* the matches of the strongest kind that has any
BestMatches(hostname, devs) ==
    IF ByHostname(hostname, devs) # {} THEN ByHostname(hostname, devs)
    ELSE IF ByName(hostname, devs) # {} THEN ByName(hostname, devs)
    ELSE ByPrefix(hostname, devs)

DeviceResolved == trace # <<>> /\ Last(trace).op = "Device"

\* C1: getDeviceIP selects by match kind over the whole list (exact hostname,
\* else exact name, else name with the prefix hostname + "."): it returns the
\* first address of a device of the strongest kind present, and fails exactly
\* when no device matches or the selected device has no addresses.
C1_KindPrecedence ==
    DeviceResolved =>
        LET e == Last(trace)
            h == SubSeq(e.ns, Len(devicePrefix) + 1, Len(e.ns))
            best == BestMatches(h, devices)
        IN  /\ e.ok => \E k \in best : /\ Len(devices[k].Addresses) > 0
                                       /\ e.ip = devices[k].Addresses[1]
            /\ ~e.ok => \/ best = {}
                        \/ \E k \in best : Len(devices[k].Addresses) = 0


\* C7: createClient uses OAuth client credentials when client id and client
\* secret are both non-empty (the API key is then not set on the client), else
\* the API key when it is non-empty, else fails with the no-credentials error
\* and no client; an unparseable base URL fails with the URL error whatever
\* the credentials.
C7_AuthPrecedence ==
    (nCreate = 1 /\ pc # "createClient") =>
        IF flags.baseURL = BadURL
        THEN /\ client.nil
             /\ pc = "exit" /\ exitCode = 1
             /\ mainErr = [stage |-> "client", cause |-> "invalid base URL"]
        ELSE IF flags.clientID # "" /\ flags.clientSecret # ""
        THEN /\ ~client.nil
             /\ client.c.HTTP.set
             /\ client.c.HTTP.ClientID = flags.clientID
             /\ client.c.HTTP.ClientSecret = flags.clientSecret
             /\ client.c.APIKey = ""
             /\ client.c.Tailnet = flags.tailnet
             /\ mainErr = NoErr
        ELSE IF flags.apiKey # ""
        THEN /\ ~client.nil
             /\ ~client.c.HTTP.set
             /\ client.c.APIKey = flags.apiKey
             /\ client.c.Tailnet = flags.tailnet
             /\ mainErr = NoErr
        ELSE /\ client.nil
             /\ pc = "exit" /\ exitCode = 1
             /\ mainErr = [stage |-> "client",
                           cause |-> "need either api key or oauth creds"]

\* an API key was supplied with both OAuth credentials, and OAuth was chosen
C7_Witness ==
    /\ nCreate = 1
    /\ flags.apiKey # "" /\ flags.clientID # "" /\ flags.clientSecret # ""
    /\ flags.baseURL = GoodURL
    /\ ~client.nil
    /\ client.c.HTTP.set
    /\ client.c.APIKey = ""


-----------------------------------------------------------------------------
(* Claims about a resolution pass and a cycle *)

Started == nCycles >= 1

\* positions of the events of one kind in the log of the running cycle
EventsOf(op) == {k \in 1..Len(trace) : trace[k].op = op}

\* the positions (domain, index) of the references of c with the given prefix
RefsWith(c, prefix) ==
    {p \in UNION {{<<d, i>> : i \in 1..Len(c[d])} : d \in DOMAIN c} :
        /\ Len(c[p[1]][p[2]]) >= Len(prefix)
        /\ SubSeq(c[p[1]][p[2]], 1, Len(prefix)) = prefix}

IsService(ns) == Len(ns) >= 4 /\ SubSeq(ns, 1, 4) = <<"s", "v", "c", ":">>
IsDevice(ns) == Len(ns) >= 7 /\ SubSeq(ns, 1, 7) = <<"d", "e", "v", "i", "c", "e", ":">>

\* positions of devs that match hostname by any kind
AnyMatches(hostname, devs) ==
    ByHostname(hostname, devs) \cup ByName(hostname, devs) \cup ByPrefix(hostname, devs)

\* an event that is a failure of the pass, told from the remote answers and
\* the device list, not from what the program made of them
Failing(e) ==
    \/ e.op = "List" /\ ~e.ok
    \/ e.op = "SetSplitDNS" /\ ~e.ok
    \/ /\ e.op = "Service"
       /\ \/ e.resp.doErr
          \/ e.resp.status # 200
          \/ ~e.resp.bodyOK
          \/ e.resp.addrs = <<>>
    \/ /\ e.op = "Device"
       /\ LET h == SubSeq(e.ns, 8, Len(e.ns))
              any == AnyMatches(h, devices)
          IN  \/ any = {}
              \/ devices[MinOf(any)].Addresses = <<>>

ResolutionFailed ==
    \E k \in 1..Len(trace) : trace[k].op # "SetSplitDNS" /\ Failing(trace[k])

\* C2: in every pass the device list is fetched at most once: exactly once if
\* the config has a device: reference in any domain, never otherwise, however
\* many such references there are and however the pass ends.
C2_DeviceListOnce ==
    Started =>
        LET n == Cardinality(EventsOf("List"))
            wanted == RefsWith(passCfg, devicePrefix) # {}
        IN  /\ n <= 1
            /\ pc = "list" => n = 0 /\ wanted
            /\ pc # "list" => n = (IF wanted THEN 1 ELSE 0)

\* a pass over two device: references in two domains has ended in an error
\* after one fetch
C2_Witness ==
    /\ pc = "ret"
    /\ ret.nil
    /\ Cardinality(RefsWith(passCfg, devicePrefix)) = 2
    /\ Cardinality(DOMAIN passCfg) = 2
    /\ Cardinality(EventsOf("List")) = 1
    /\ trace[1].ok

\* C3: a pass is all-or-nothing: when the device-list fetch fails or any
\* reference fails to resolve, resolveSplitDNS returns an error and no table,
\* updateDNS returns an error and SetSplitDNS is not called in that cycle.
C3_AllOrNothing ==
    ResolutionFailed =>
        /\ ret.done /\ ret.nil /\ ret.err # ""
        /\ err # ""
        /\ ~submitted.set
        /\ EventsOf("SetSplitDNS") = {}
        /\ pc \in {"ret", "wait", "exit"}
        /\ pc = "exit" => exitCode = 1

\* a service without addresses voids a pass that had stored another domain
C3_Witness ==
    /\ pc \in {"wait", "exit"}
    /\ trace # <<>>
    /\ Last(trace).op = "Service"
    /\ ~Last(trace).resp.doErr /\ Last(trace).resp.status = 200
    /\ Last(trace).resp.bodyOK /\ Last(trace).resp.addrs = <<>>
    /\ DOMAIN splitDNS # {}
    /\ ret.nil

\* C10: resolution aborts at the first failure: nothing follows a failure in
\* the cycle (no reference is processed, no service lookup or submission is
\* issued), and the device-list fetch precedes every other step, so that its
\* failure prevents every service lookup.
C10_AbortAtFirstFailure ==
    /\ \A k \in 1..Len(trace) : Failing(trace[k]) => k = Len(trace)
    /\ \A k \in EventsOf("List") : k = 1
    /\ (trace # <<>> /\ Failing(Last(trace))) =>
          /\ pc \in {"ret", "wait", "exit"}
          /\ Last(trace).op \in {"Service", "Device"} =>
                cur = Last(trace).dom /\ idx = Last(trace).i

\* a service lookup failed while a reference of the same domain or another
\* domain was still to come
C10_Witness ==
    /\ pc = "ret"
    /\ Len(trace) >= 2
    /\ Last(trace).op = "Service"
    /\ Failing(Last(trace))
    /\ \/ todo # {}
       \/ idx < Len(passCfg[cur])

\* the device-list fetch failed in a config that also has a svc: reference
C10_WitnessList ==
    /\ pc = "ret"
    /\ trace # <<>> /\ trace[1].op = "List" /\ ~trace[1].ok
    /\ RefsWith(passCfg, svcPrefix) # {}


Built == ~client.nil /\ nCreate = 1

\* C4: in daemon mode, once the config is loaded and the client built, a
\* failed cycle never ends the process or the loop: main goes back to waiting
\* on the ticker, and when a tick is there the next cycle can start.
C4_DaemonSurvivesFailure ==
    (Daemon /\ Built) =>
        /\ pc # "exit"
        /\ exitCode = 0 /\ mainErr = NoErr
        /\ (pc = "ret" /\ err # "") => ENABLED DaemonReturn
        /\ (pc = "wait" /\ tickPending) => ENABLED ReceiveTick
        /\ lastFailed => pc \in {"wait", "list", "range", "ref", "set", "ret"}

\* the cycle after a failed cycle has started
C4_Witness ==
    /\ Daemon
    /\ lastFailed
    /\ nCycles = 2
    /\ pc \in {"list", "range"}
    /\ trace = <<>>

SetOK == trace # <<>> /\ Last(trace).op = "SetSplitDNS" /\ Last(trace).ok

\* C5: in one-shot mode the config is loaded once, the client built once and
\* one cycle run; no stage runs after an earlier one failed; the process ends
\* with status 0 only if every stage succeeded and non-zero otherwise.
C5_OneShot ==
    ~Daemon =>
        /\ nLoad <= 1 /\ nCreate <= 1 /\ nCycles <= 1
        /\ ~tickPending
        /\ pc # "wait"
        /\ nCreate = 1 => nLoad = 1 /\ cfg = loaded /\ mainErr.stage # "load"
        /\ nCycles = 1 => nCreate = 1 /\ ~client.nil /\ mainErr.stage # "client"
        /\ EventsOf("SetSplitDNS") # {} => ret.done /\ ~ret.nil /\ ~ResolutionFailed
        /\ Cardinality(EventsOf("SetSplitDNS")) <= 1
        /\ pc = "exit" =>
              /\ exitCode \in {0, 1}
              /\ exitCode = 0 <=>
                    /\ nLoad = 1 /\ nCreate = 1 /\ nCycles = 1
                    /\ ~client.nil
                    /\ ret.done /\ ~ret.nil
                    /\ SetOK
              /\ exitCode = 1 <=> mainErr.stage \in {"load", "client", "update"}
              /\ mainErr.stage = "load" => nCreate = 0 /\ nCycles = 0
              /\ mainErr.stage = "client" => client.nil /\ nCycles = 0
              /\ mainErr.stage = "update" => nCycles = 1 /\ ~SetOK

\* the one cycle resolved its references and the submission failed
C5_Witness ==
    /\ ~Daemon
    /\ pc = "exit"
    /\ exitCode = 1
    /\ nLoad = 1 /\ nCreate = 1 /\ nCycles = 1
    /\ ret.done /\ ~ret.nil
    /\ trace # <<>> /\ Last(trace).op = "SetSplitDNS" /\ ~Last(trace).ok

\* the event of the running cycle for the reference at (d, i)
EventAt(d, i) ==
    trace[CHOOSE k \in 1..Len(trace) :
            trace[k].op \in {"Service", "Device", "Literal"}
            /\ trace[k].dom = d /\ trace[k].i = i]

PassSucceeded == Started /\ ret.done /\ ~ret.nil

SvcOccurrences(c) == Cardinality(RefsWith(c, svcPrefix))

\* C8: one service lookup per occurrence of a svc: reference: every lookup is
\* for a svc: reference of the config at its own position, no position is
\* looked up twice, none is issued for a literal or a device: reference, and
\* a pass that succeeded issued as many lookups as the config has svc:
\* occurrences.
C8_LookupPerOccurrence ==
    Started =>
        /\ \A k \in EventsOf("Service") :
              /\ trace[k].ok
              /\ trace[k].dom \in DOMAIN passCfg
              /\ trace[k].i \in 1..Len(passCfg[trace[k].dom])
              /\ passCfg[trace[k].dom][trace[k].i] = trace[k].ns
              /\ IsService(trace[k].ns)
        /\ \A k, j \in EventsOf("Service") :
              (trace[k].dom = trace[j].dom /\ trace[k].i = trace[j].i) => k = j
        /\ Cardinality(EventsOf("Service")) <= SvcOccurrences(passCfg)
        /\ PassSucceeded =>
              Cardinality(EventsOf("Service")) = SvcOccurrences(passCfg)

\* the same name in two domains was looked up twice and answered differently
C8_Witness ==
    /\ PassSucceeded
    /\ DOMAIN passCfg = {"d1", "d2"}
    /\ passCfg["d1"] = <<SvcA>> /\ passCfg["d2"] = <<SvcA>>
    /\ Cardinality(EventsOf("Service")) = 2
    /\ splitDNS["d1"] # splitDNS["d2"]

\* C9: in daemon mode the config is loaded and the client built once, before
\* the first cycle; every cycle resolves that config and none changes the
\* config or the client.
C9_LoadedOnce ==
    (Daemon /\ Started) =>
        /\ nLoad = 1 /\ nCreate = 1
        /\ cfg = loaded
        /\ passCfg = loaded
        /\ ~client.nil
        /\ client.c = createClient(flags.tailnet, flags.apiKey, flags.clientID,
                                   flags.clientSecret, flags.baseURL).c

\* a second cycle has run on the config loaded at startup
C9_Witness ==
    /\ Daemon
    /\ nCycles = 2
    /\ pc = "ret"
    /\ nLoad = 1 /\ nCreate = 1
    /\ DOMAIN passCfg # {}
    /\ passCfg = loaded


-----------------------------------------------------------------------------
(* Claims about the ticker loop *)

Running == pc \in {"list", "range", "ref", "set", "ret"}

IsPrefix(s, t) == Len(s) <= Len(t) /\ SubSeq(t, 1, Len(s)) = s

\* what every step of the loop does, by where main stands
TickerStep ==
    \* the first cycle starts from main at once, with no tick received
    /\ (pc = "main" /\ Daemon) =>
          /\ pc' \in {"list", "range"}
          /\ nCycles' = 1
          /\ trace' = <<>>
          /\ ~tickPending' /\ ~tickDropped'
    \* no cycle starts while one is running
    /\ Running =>
          /\ pc' \in {"list", "range", "ref", "set", "ret", "wait", "exit"}
          /\ IsPrefix(trace, trace')
          /\ passCfg' = passCfg
          /\ nCycles' = nCycles
    \* a tick that fired during a cycle waits for its end
    /\ (Running /\ tickPending) => tickPending'
    \* a timer fire changes the channel only by filling it when it is empty
    /\ tickPending' => (tickPending \/ ~tickDropped')
    \* main leaves the wait only by taking the one pending tick, which
    \* empties the channel and starts one cycle, whatever was dropped
    /\ (pc = "wait" /\ pc' # "wait") =>
          /\ tickPending
          /\ ~tickPending' /\ ~tickDropped'
          /\ pc' \in {"list", "range"}
          /\ trace' = <<>>

\* C11: in daemon mode the first cycle starts at startup without a tick;
\* cycles are serialized; a tick that fires during a cycle is kept (delayed),
\* further ones are dropped, not queued, so that at most one tick is pending
\* and an overrun of any length is followed by one cycle from the backlog.
C11_TickerSerialized ==
    /\ [](tickDropped => (Daemon /\ tickPending))
    /\ [](~Daemon => ~tickPending)
    /\ [][TickerStep]_vars

\* a cycle overran two or more timer fires: one tick is pending, the rest
\* were dropped
C11_Witness ==
    /\ Daemon
    /\ pc = "ret"
    /\ nCycles = 1
    /\ tickPending
    /\ tickDropped


-----------------------------------------------------------------------------
(* One pass with the answer of the services endpoint fixed per name: the    *)
(* range over the map still takes the domains in any order                  *)

ServiceNames == {r \in Refs : HasPrefix(r, svcPrefix)}

AnswerMaps == [ServiceNames -> Responses]

InitOrder ==
    /\ pc = "main"
    /\ flags = ApiKeyFlags
    /\ cfg \in Configs
    /\ client = [nil |-> FALSE, c |-> createClient("-", "k", "", "", GoodURL).c]
    /\ mainErr = NoErr
    /\ exitCode = 0
    /\ tickPending = FALSE
    /\ tickDropped = FALSE
    /\ answers \in AnswerMaps
    /\ InitPass
    /\ loaded = cfg
    /\ nLoad = 1
    /\ nCreate = 1
    /\ nCycles = 0
    /\ lastFailed = FALSE

\* main.go:162-169, the endpoint answering as fixed for the name
ResolveServiceFixed ==
    /\ ResolveService
    /\ trace'[Len(trace')].resp = answers[passCfg[cur][idx]]

NextOrder ==
    \/ StartOneShot
    \/ ListDevices
    \/ RangeDomain
    \/ ResolveServiceFixed
    \/ ResolveDevice
    \/ CopyLiteral
    \/ StoreDomain
    \/ RangeDone

SpecOrder == InitOrder /\ [][NextOrder]_vars

-----------------------------------------------------------------------------
(* Claims about the order of the domains *)

\* the device-list fetch of the pass, if it needed one, succeeded
ListAnswered ==
    \/ RefsWith(passCfg, devicePrefix) = {}
    \/ trace # <<>> /\ trace[1].op = "List" /\ trace[1].ok

AnswerOK(resp) ==
    ~resp.doErr /\ resp.status = 200 /\ resp.bodyOK /\ resp.addrs # <<>>

\* whether and to what a reference resolves under the fixed answers and the
\* fetched device list, whenever it is processed
RefResolves(ns) ==
    IF IsService(ns) THEN AnswerOK(answers[ns])
    ELSE IF IsDevice(ns)
    THEN LET any == AnyMatches(SubSeq(ns, 8, Len(ns)), devices)
         IN  any # {} /\ devices[MinOf(any)].Addresses # <<>>
    ELSE TRUE

RefValue(ns) ==
    IF IsService(ns) THEN answers[ns].addrs[1]
    ELSE IF IsDevice(ns)
    THEN devices[MinOf(AnyMatches(SubSeq(ns, 8, Len(ns)), devices))].Addresses[1]
    ELSE ns

\* C12: the outcome of a pass does not depend on the order of the domains:
\* under fixed answers per name, whether the pass succeeds and the table of a
\* pass that succeeds are functions of the config, the answers and the device
\* list alone, so any two iteration orders agree on both.
C12_OrderIndependent ==
    ret.done =>
        /\ ~ret.nil <=>
              /\ ListAnswered
              /\ \A d \in DOMAIN passCfg : \A i \in 1..Len(passCfg[d]) :
                    RefResolves(passCfg[d][i])
        /\ ~ret.nil =>
              splitDNS = [d \in DOMAIN passCfg |->
                            [i \in 1..Len(passCfg[d]) |-> RefValue(passCfg[d][i])]]

\* a pass over two services succeeded taking d2 before d1
C12_Witness ==
    /\ ret.done /\ ~ret.nil
    /\ DOMAIN passCfg = {"d1", "d2"}
    /\ passCfg["d1"] = <<SvcA>> /\ passCfg["d2"] = <<SvcB>>
    /\ Len(trace) = 2
    /\ trace[1].dom = "d2" /\ trace[2].dom = "d1"
    /\ splitDNS["d1"] # splitDNS["d2"]

\* a pass failed at a name after another name had been looked up: taken in
\* the other order, the failure comes before that lookup
C12_WitnessFailure ==
    /\ ret.done /\ ret.nil
    /\ DOMAIN passCfg = {"d1", "d2"}
    /\ Len(trace) = 2
    /\ trace[1].op = "Service" /\ trace[2].op = "Service"
    /\ trace[1].dom # trace[2].dom
    /\ ~AnswerOK(trace[2].resp)


====
